---- MODULE Spec2Model ----
(***************************************************************************)
(* Model of imc_nft_auction_helper.py: a Streamlit dashboard that keeps    *)
(* the session state of an NFT auction (own budget, owned token ids,       *)
(* rivals' budgets, ids already auctioned) and derives valuations, bid     *)
(* ceilings and nomination advice from it.                                 *)
(*                                                                         *)
(* One action is one run of the script: Streamlit re-executes the whole    *)
(* file on every widget interaction, so an action is the sidebar handler   *)
(* of the clicked button followed by the rendering of the tabs.            *)
(*                                                                         *)
(* Numbers: 'Total Score' and every bid are held in tenths (20 is 2.0);    *)
(* budgets are whole units as the number_input yields them (step=1).       *)
(* A heuristic value is the exact rational num/den.                        *)
(***************************************************************************)
EXTENDS Integers, Sequences, FiniteSets, TLC

\* ---- CONFIG (lines 18-24) ------------------------------------------------
STARTING_BUDGET == 50
BACKGROUND_COLORS == <<"Blue", "Aquamarine", "Yellow">>
\* boosts are in tenths of the multiplier
GOLD_FUR_VALUE_BOOST == 15
MISSING_BACKGROUND_BOOST == 8
UPGRADE_BACKGROUND_BOOST == 3
\* the boost a second gold fur still gets (the literal 0.2 of line 79)
GOLD_FUR_REPEAT_BOOST == 2
\* SCARCITY_BOOST_SCALE is 0.5 == 1 / SCARCITY_BOOST_DIVISOR
SCARCITY_BOOST_DIVISOR == 2
SAFETY_CASH_BUFFER == 2

\* ---- bounds of the model -------------------------------------------------
\* longest owned list / largest sold set the model explores
MaxOwned == 2
MaxSold == 2
\* the budget widget is exercised on 0..BudgetProbe and on STARTING_BUDGET
BudgetProbe == 0

Range(s) == {s[i] : i \in 1..Len(s)}

\* ---- the dataset (load_data, lines 27-38) --------------------------------
\* Rows of NFT_Auction_Data.xlsx, in file order.  Two tokens share a
\* mandatory background, two carry the Solid Gold fur, one background is
\* not among BACKGROUND_COLORS, and no token is Aquamarine.
df ==
  << [id |-> 1, Background |-> "Blue",   Fur |-> "Brown",      TotalScore |-> 20],
     [id |-> 2, Background |-> "Blue",   Fur |-> "Brown",      TotalScore |-> 50],
     [id |-> 3, Background |-> "Yellow", Fur |-> "Solid Gold", TotalScore |-> 30],
     [id |-> 4, Background |-> "Purple", Fur |-> "Solid Gold", TotalScore |-> 10] >>

CatalogIds == {r.id : r \in Range(df)}

TOTAL_COUNTS == Len(df)

\* frame['Background'].value_counts().to_dict(): only backgrounds that occur
value_counts(frame) ==
  [bg \in {r.Background : r \in Range(frame)} |->
      Cardinality({i \in 1..Len(frame) : frame[i].Background = bg})]

initial_bg_counts == value_counts(df)

\* ---- text inputs and int() ------------------------------------------------
\* A text_input value is a sequence of characters.
Digits == <<"0","1","2","3","4","5","6","7","8","9">>

IsDigit(c) == \E d \in 1..10 : Digits[d] = c

DigitVal(c) == (CHOOSE d \in 1..10 : Digits[d] = c) - 1

RECURSIVE Strip(_)
Strip(s) ==
  IF s = <<>> THEN s
  ELSE IF Head(s) = " " THEN Strip(Tail(s))
  ELSE IF s[Len(s)] = " " THEN Strip(SubSeq(s, 1, Len(s) - 1))
  ELSE s

RECURSIVE DigitsVal(_)
DigitsVal(s) ==
  IF s = <<>> THEN 0
  ELSE 10 * DigitsVal(SubSeq(s, 1, Len(s) - 1)) + DigitVal(s[Len(s)])

AllDigits(s) == s # <<>> /\ \A i \in 1..Len(s) : IsDigit(s[i])

\* Python int(text): surrounding whitespace is ignored, one sign is
\* allowed, the rest must be decimal digits; anything else raises
\* ValueError (ok = FALSE).
int(text) ==
  LET s == Strip(text)
      signed == s # <<>> /\ Head(s) \in {"+", "-"}
      body == IF signed THEN Tail(s) ELSE s
  IN IF ~AllDigits(body) THEN [ok |-> FALSE, val |-> 0]
     ELSE IF signed /\ Head(s) = "-" THEN [ok |-> TRUE, val |-> 0 - DigitsVal(body)]
     ELSE [ok |-> TRUE, val |-> DigitsVal(body)]

\* what the user types into an id field
TextInputs ==
  { <<"1">>, <<"2">>, <<"3">>, <<"4">>, <<"9">>,
    <<" ", "2">>, <<"+", "3">>, <<>>, <<"2", ".", "0">> }

PlayerNames == { "", "ann" }

BudgetInputs == (0..BudgetProbe) \cup {STARTING_BUDGET}

RivalBudgetInputs == {0, STARTING_BUDGET}

\* ---- SESSION STATE (lines 41-48) ------------------------------------------
VARIABLES
  my_budget,      \* st.session_state.my_budget
  my_tokens,      \* st.session_state.my_tokens: list of ids you own
  others_budget,  \* st.session_state.others_budget: {player_name: remaining}
  auctioned_ids,  \* st.session_state.auctioned_ids: ids already sold
  msg,            \* the st.success / st.warning shown by this run's handler
  shown           \* what tab1 last rendered from collection_status()

ledger == <<my_budget, my_tokens, others_budget, auctioned_ids>>

vars == <<my_budget, my_tokens, others_budget, auctioned_ids, msg, shown>>

SuccessMsgs == {"added", "removed", "updated", "player_removed", "marked_sold"}

WarningMsgs == {"not_found", "already_own", "invalid_int", "enter_valid_id"}

\* ---- HELPER FUNCTIONS (lines 51-102) --------------------------------------
remaining_df == SelectSeq(df, LAMBDA r : r.id \notin auctioned_ids)

owned_rows(tokens) == SelectSeq(df, LAMBDA r : r.id \in Range(tokens))

collection_df == owned_rows(my_tokens)

\* status_of with the membership test of missing_bg inverted
status_of_inverted_missing(owned) ==
  LET backgrounds_owned == {r.Background : r \in Range(owned)}
  IN [backgrounds_owned |-> backgrounds_owned,
      missing_bg |-> SelectSeq(BACKGROUND_COLORS, LAMBDA c : c \in backgrounds_owned),
      has_gold |-> \E r \in Range(owned) : r.Fur = "Solid Gold"]

status_of(owned) ==
  LET      backgrounds_owned == {r.Background : r \in Range(owned)}
  IN [backgrounds_owned |-> backgrounds_owned,
      missing_bg |-> SelectSeq(BACKGROUND_COLORS, LAMBDA c : c \notin backgrounds_owned),
      has_gold |-> \E r \in Range(owned) : r.Fur = "Solid Gold"]

collection_status == status_of(collection_df)

SetMax(S) == CHOOSE m \in S : \A x \in S : x <= m

best_scores_by_background(owned) ==
  [bg \in Range(BACKGROUND_COLORS) |->
      LET tokens_bg == SelectSeq(owned, LAMBDA r : r.Background = bg)
      IN IF tokens_bg # <<>> THEN SetMax({r.TotalScore : r \in Range(tokens_bg)}) ELSE 0]

\* scores.get(bg, 0)
current_best(bg) ==
  LET scores == best_scores_by_background(collection_df)
  IN IF bg \in DOMAIN scores THEN scores[bg] ELSE 0

\* remaining_df()['Background'].value_counts().to_dict().get(bg, 0)
remaining_bg_count(bg) ==
  LET counts == value_counts(remaining_df)
  IN IF bg \in DOMAIN counts THEN counts[bg] ELSE 0

\* multiplier10 with the fur boost subtracted instead of added
multiplier10_fur_subtracted(token_row) ==
  LET st == collection_status
      gold == IF token_row.Fur = "Solid Gold"
              THEN (IF ~st.has_gold THEN GOLD_FUR_VALUE_BOOST ELSE GOLD_FUR_REPEAT_BOOST)
              ELSE 0
      bgb  == IF token_row.Background \in Range(st.missing_bg)
              THEN MISSING_BACKGROUND_BOOST
              ELSE IF token_row.TotalScore > current_best(token_row.Background)
                   THEN UPGRADE_BACKGROUND_BOOST ELSE 0
  IN 10 - gold + bgb

\* the multiplier of value_token before the scarcity term, in tenths
multiplier10(token_row) ==
  LET st == collection_status
      gold == IF token_row.Fur = "Solid Gold"
              THEN (IF ~st.has_gold THEN GOLD_FUR_VALUE_BOOST ELSE GOLD_FUR_REPEAT_BOOST)
              ELSE 0
      bgb  == IF token_row.Background \in Range(st.missing_bg)
              THEN MISSING_BACKGROUND_BOOST
              ELSE IF token_row.TotalScore > current_best(token_row.Background)
                   THEN UPGRADE_BACKGROUND_BOOST ELSE 0
  IN 10 + gold + bgb

\* scarcity_factor with the "1 -" dropped: remaining / initial
scarcity_factor_share_left(bg) ==
  [num |-> remaining_bg_count(bg), den |-> initial_bg_counts[bg]]

\* scarcity_factor dividing by the remaining count: 1 - initial / remaining
scarcity_factor_over_remaining(bg) ==
  [num |-> remaining_bg_count(bg) - initial_bg_counts[bg],
   den |-> remaining_bg_count(bg)]

\* scarcity_factor = 1 - remaining_bg_count / initial_bg_counts[bg], as the
\* rational num / den; den is the divisor of line 89
scarcity_factor(bg) ==
  [num |-> initial_bg_counts[bg] - remaining_bg_count(bg),
   den |-> initial_bg_counts[bg]]

\* value_token valuing only the gain over the best owned score
value_token_marginal_gain(token_row) ==
  LET gain == token_row.TotalScore - current_best(token_row.Background)
      base == IF gain > 0 THEN gain ELSE 0
      sf   == scarcity_factor(token_row.Background)
  IN [num |-> base * (SCARCITY_BOOST_DIVISOR * sf.den * multiplier10(token_row)
                        + 10 * sf.num),
      den |-> 10 * 10 * SCARCITY_BOOST_DIVISOR * sf.den]

\* value_token: base * (multiplier + scarcity_factor * SCARCITY_BOOST_SCALE).
\* The value, in score units, is num / den.
value_token(token_row) ==
  LET base == token_row.TotalScore
      sf   == scarcity_factor(token_row.Background)
  IN [num |-> base * (SCARCITY_BOOST_DIVISOR * sf.den * multiplier10(token_row)
                        + 10 * sf.num),
      den |-> 10 * 10 * SCARCITY_BOOST_DIVISOR * sf.den]

\* round(val, 1), in tenths.  The value is a binary float, so a value that
\* lies exactly between two tenths may come out either way.
round1(val) ==
  LET n == 10 * val.num
      q == n \div val.den
      r == n % val.den
  IN IF 2 * r < val.den THEN {q}
     ELSE IF 2 * r > val.den THEN {q + 1}
     ELSE {q, q + 1}

Min(a, b) == IF a <= b THEN a ELSE b

\* suggested_bid capped at the whole budget, the buffer forgotten
suggested_bid_no_buffer(token_row) ==
  LET val == value_token(token_row)
      max_affordable == 10 * my_budget
  IN {Min(b, max_affordable) : b \in round1(val)}

\* suggested_bid: the bid ceilings, in tenths, the function can return
suggested_bid(token_row) ==
  LET val == value_token(token_row)
      max_affordable == 10 * (my_budget - SAFETY_CASH_BUFFER)
  IN {Min(b, max_affordable) : b \in round1(val)}

\* a / b <= c / d for rationals with positive denominators
RatLeq(a, c) == a.num * c.den <= c.num * a.den

RatLess(a, c) == a.num * c.den < c.num * a.den

\* rem['MyValue'] = rem.apply(value_token, axis=1)
with_my_value(frame) ==
  [i \in 1..Len(frame) |->
      [id |-> frame[i].id, Background |-> frame[i].Background,
       Fur |-> frame[i].Fur, TotalScore |-> frame[i].TotalScore,
       MyValue |-> value_token(frame[i])]]

\* frame.sort_values('MyValue', ascending=False): the default sort is not
\* stable, so rows of equal MyValue may come out in any order
sort_values_desc(frame) ==
  LET n == Len(frame)
      perms == {p \in [1..n -> 1..n] : \A i, j \in 1..n : i # j => p[i] # p[j]}
      orders == {[i \in 1..n |-> frame[p[i]]] : p \in perms}
  IN {o \in orders :
        \A i, j \in 1..n : i < j => ~RatLess(o[i].MyValue, o[j].MyValue)}

\* frame.head(n)
head(frame, n) == SubSeq(frame, 1, Min(n, Len(frame)))

\* the top_n the Suggestions tab asks for
NOMINATION_TOP_N == 15

\* recommend_nomination: the tables the function can return
recommend_nomination(top_n) ==
  {head(o, top_n) : o \in sort_values_desc(with_my_value(remaining_df))}

\* ---- rendering of tab1 (lines 154-173) ------------------------------------
\* bg_owned, missing_bg, has_gold = collection_status(), as the run that
\* leaves the owned list `tokens` displays them
Dashboard(tokens) == status_of(owned_rows(tokens))

Init ==
  /\ my_budget = STARTING_BUDGET
  /\ my_tokens = <<>>
  /\ others_budget = << >>
  /\ auctioned_ids = {}
  /\ msg = "none"
  /\ shown = Dashboard(my_tokens)

\* ---- SIDEBAR INPUTS (lines 105-149) ---------------------------------------
\* the budget number_input was edited; no button was clicked
SetBudget(b) ==
  /\ b # my_budget
  /\ my_budget' = b
  /\ UNCHANGED <<my_tokens, others_budget, auctioned_ids>>
  /\ msg' = "none"
  /\ shown' = Dashboard(my_tokens')

\* AddToken without the "You already own this token" branch
AddToken_no_owned_check(new_token) ==
  LET parsed == int(new_token)
      tid == parsed.val
  IN
  /\ IF ~parsed.ok
       THEN /\ msg' = "invalid_int"
            /\ UNCHANGED my_tokens
       ELSE IF tid \notin CatalogIds
       THEN /\ msg' = "not_found"
            /\ UNCHANGED my_tokens
       ELSE /\ Len(my_tokens) < MaxOwned
            /\ my_tokens' = Append(my_tokens, tid)
            /\ msg' = "added"
  /\ UNCHANGED <<my_budget, others_budget, auctioned_ids>>
  /\ shown' = Dashboard(my_tokens')

\* AddToken putting the new id first, my_tokens.insert(0, tid)
AddToken_insert_first(new_token) ==
  LET parsed == int(new_token)
      tid == parsed.val
  IN
  /\ IF ~parsed.ok
       THEN /\ msg' = "invalid_int"
            /\ UNCHANGED my_tokens
       ELSE IF tid \notin CatalogIds
       THEN /\ msg' = "not_found"
            /\ UNCHANGED my_tokens
       ELSE IF tid \in Range(my_tokens)
       THEN /\ msg' = "already_own"
            /\ UNCHANGED my_tokens
       ELSE /\ Len(my_tokens) < MaxOwned
            /\ my_tokens' = <<tid>> \o my_tokens
            /\ msg' = "added"
  /\ UNCHANGED <<my_budget, others_budget, auctioned_ids>>
  /\ shown' = Dashboard(my_tokens')

AddToken(new_token) ==
  LET parsed == int(new_token)
      tid == parsed.val
  IN
  /\ IF ~parsed.ok
       THEN /\ msg' = "invalid_int"
            /\ UNCHANGED my_tokens
       ELSE IF tid \notin CatalogIds
       THEN /\ msg' = "not_found"
            /\ UNCHANGED my_tokens
       ELSE IF tid \in Range(my_tokens)
       THEN /\ msg' = "already_own"
            /\ UNCHANGED my_tokens
       ELSE /\ Len(my_tokens) < MaxOwned
            /\ my_tokens' = Append(my_tokens, tid)
            /\ msg' = "added"
  /\ UNCHANGED <<my_budget, others_budget, auctioned_ids>>
  /\ shown' = Dashboard(my_tokens')

\* UndoLastToken popping the oldest token, my_tokens.pop(0)
UndoLastToken_pop_first ==
  /\ IF my_tokens # <<>>
       THEN /\ my_tokens' = Tail(my_tokens)
            /\ msg' = "removed"
       ELSE /\ UNCHANGED my_tokens
            /\ msg' = "none"
  /\ UNCHANGED <<my_budget, others_budget, auctioned_ids>>
  /\ shown' = Dashboard(my_tokens')

UndoLastToken ==
  /\ IF my_tokens # <<>>
       THEN /\ my_tokens' = SubSeq(my_tokens, 1, Len(my_tokens) - 1)
            /\ msg' = "removed"
       ELSE /\ UNCHANGED my_tokens
            /\ msg' = "none"
  /\ UNCHANGED <<my_budget, others_budget, auctioned_ids>>
  /\ shown' = Dashboard(my_tokens')

UpdatePlayer(player_to_update, budget_val) ==
  /\ IF player_to_update # ""
       THEN /\ others_budget' =
                 [p \in DOMAIN others_budget \cup {player_to_update} |->
                     IF p = player_to_update THEN budget_val ELSE others_budget[p]]
            /\ msg' = "updated"
       ELSE /\ UNCHANGED others_budget
            /\ msg' = "none"
  /\ UNCHANGED <<my_budget, my_tokens, auctioned_ids>>
  /\ shown' = Dashboard(my_tokens')

RemovePlayer(player_to_update) ==
  /\ IF player_to_update \in DOMAIN others_budget
       THEN /\ others_budget' =
                 [p \in DOMAIN others_budget \ {player_to_update} |-> others_budget[p]]
            /\ msg' = "player_removed"
       ELSE /\ UNCHANGED others_budget
            /\ msg' = "none"
  /\ UNCHANGED <<my_budget, my_tokens, auctioned_ids>>
  /\ shown' = Dashboard(my_tokens')

\* MarkSold assigning a fresh set, auctioned_ids = {sold_id}
MarkSold_overwriting(sold_token) ==
  LET parsed == int(sold_token)
      sold_id == parsed.val
  IN
  /\ IF ~parsed.ok
       THEN /\ msg' = "enter_valid_id"
            /\ UNCHANGED auctioned_ids
       ELSE /\ auctioned_ids' = {sold_id}
            /\ msg' = "marked_sold"
  /\ UNCHANGED <<my_budget, my_tokens, others_budget>>
  /\ shown' = Dashboard(my_tokens')

MarkSold(sold_token) ==
  LET parsed == int(sold_token)
      sold_id == parsed.val
  IN
  /\ IF ~parsed.ok
       THEN /\ msg' = "enter_valid_id"
            /\ UNCHANGED auctioned_ids
       ELSE /\ Cardinality(auctioned_ids \cup {sold_id}) <= MaxSold
            /\ auctioned_ids' = auctioned_ids \cup {sold_id}
            /\ msg' = "marked_sold"
  /\ UNCHANGED <<my_budget, my_tokens, others_budget>>
  /\ shown' = Dashboard(my_tokens')

\* Rerun with a rendering that sorts the owned list in place for display
Rerun_sorting_in_place ==
  /\ my_tokens' = IF Len(my_tokens) >= 2 /\ my_tokens[1] > my_tokens[2]
                     THEN <<my_tokens[2], my_tokens[1]>> \o SubSeq(my_tokens, 3, Len(my_tokens))
                     ELSE my_tokens
  /\ UNCHANGED <<my_budget, others_budget, auctioned_ids>>
  /\ msg' = "none"
  /\ shown' = Dashboard(my_tokens')

\* a run of the script with no button clicked (a tab-2 or tab-3 widget was
\* edited): only the helper functions are evaluated
Rerun ==
  /\ UNCHANGED ledger
  /\ msg' = "none"
  /\ shown' = Dashboard(my_tokens')

Next ==
  \/ \E b \in BudgetInputs : SetBudget(b)
  \/ \E t \in TextInputs : AddToken(t)
  \/ UndoLastToken
  \/ \E p \in PlayerNames, v \in RivalBudgetInputs : UpdatePlayer(p, v)
  \/ \E p \in PlayerNames : RemovePlayer(p)
  \/ \E t \in TextInputs : MarkSold(t)
  \/ Rerun

Spec == Init /\ [][Next]_vars

TypeOK ==
  /\ my_budget \in 0..STARTING_BUDGET
  /\ msg \in SuccessMsgs \cup WarningMsgs \cup {"none"}
  /\ my_tokens \in Seq(CatalogIds)
  /\ DOMAIN others_budget \subseteq PlayerNames \ {""}

\* ==== properties ===========================================================

\* C1: recording a sale of an id (Mark sold) succeeds the first time; a
\* second Mark sold of an id that is already in the sold set is rejected
\* (a warning outcome, not a success) and leaves the whole state unchanged.
DoubleSaleRejected ==
  [][\A t \in TextInputs :
        (MarkSold(t) /\ int(t).ok) =>
           IF int(t).val \in auctioned_ids
           THEN msg' \in WarningMsgs /\ UNCHANGED ledger
           ELSE msg' \in SuccessMsgs]_vars

\* C2: every id in the owned items is a member of the sold set and of the
\* catalog.
OwnedAreSoldAndInCatalog ==
  \A t \in Range(my_tokens) : t \in auctioned_ids /\ t \in CatalogIds

\* C3: a sale of an id outside the catalog is refused, so the sold set is
\* always a subset of the catalog ids.
SoldSubsetOfCatalog == auctioned_ids \subseteq CatalogIds

\* C4: a sale to the participant is one atomic step: the step that puts an
\* item into the owned items also puts it into the sold set and debits the
\* budget (the budget does not stay above its old value).
RecordSaleAtomic ==
  [][\A t \in CatalogIds :
        (t \notin Range(my_tokens) /\ t \in Range(my_tokens')) =>
           (t \in auctioned_ids' /\ my_budget' <= my_budget)]_vars

\* C5: for every catalog item the recommended bid lies between 0 and the
\* current budget, and it is 0 when the budget is 0.  (bids are in tenths)
BidWithinBudget ==
  \A i \in 1..Len(df) : \A b \in suggested_bid(df[i]) :
     /\ 0 <= b
     /\ b <= 10 * my_budget
     /\ (my_budget = 0 => b = 0)

\* C6: for every catalog item the utility (value_token) is >= 0, and the
\* remaining count of its background never exceeds the initial count.
UtilityNonNegative ==
  \A i \in 1..Len(df) :
     /\ value_token(df[i]).num >= 0
     /\ value_token(df[i]).den > 0
     /\ remaining_bg_count(df[i].Background) <= initial_bg_counts[df[i].Background]

\* a background is sold out, tokens are owned, and a token of the sold-out
\* background is valued
UtilityWitness ==
  /\ my_tokens # <<>>
  /\ \E i \in 1..Len(df) :
        /\ remaining_bg_count(df[i].Background) = 0
        /\ value_token(df[i]).num > 0

\* the best score the participant really owns in a background
BestOwnedScore(bg) ==
  LET S == {r.TotalScore : r \in {x \in Range(collection_df) : x.Background = bg}}
  IN IF S = {} THEN 0 ELSE SetMax(S)

\* the item fulfils no unmet need and is no upgrade
NoUnmetNeed(token_row) ==
  /\ token_row.Background \in collection_status.backgrounds_owned
  /\ (token_row.Fur # "Solid Gold" \/ collection_status.has_gold)
  /\ token_row.TotalScore <= BestOwnedScore(token_row.Background)

\* C7: an item that fulfils no unmet need and does not beat the best owned
\* score of its background has utility zero and never a positive bid
\* (stated for the items the participant does not own yet).
NoNeedNoValue ==
  \A i \in 1..Len(df) :
     (df[i].id \notin Range(my_tokens) /\ NoUnmetNeed(df[i])) =>
        /\ value_token(df[i]).num = 0
        /\ \A b \in suggested_bid(df[i]) : b <= 0

SoldGrowsAndPoolIsComplement ==
  /\ []({r.id : r \in Range(remaining_df)} = CatalogIds \ auctioned_ids)
  /\ [][auctioned_ids \subseteq auctioned_ids']_vars

\* two ids are sold, one of them not in the catalog, and the pool shrank
PoolWitness ==
  /\ Cardinality(auctioned_ids) = 2
  /\ ~(auctioned_ids \subseteq CatalogIds)
  /\ Len(remaining_df) = Len(df) - 1

RowOf(tid) == CHOOSE r \in Range(df) : r.id = tid

\* the backgrounds and furs of the owned ids, read off the catalog
OwnedBackgrounds == {RowOf(t).Background : t \in Range(my_tokens)}

\* C11: the missing mandatory backgrounds are exactly the mandatory
\* backgrounds with no owned item, has_gold is true exactly when an owned
\* item has the Solid Gold fur, and the step that acquires an item of a
\* mandatory background leaves that background not reported missing.
NeedsAgreeWithOwnership ==
  /\ [](/\ Range(collection_status.missing_bg) =
            {c \in Range(BACKGROUND_COLORS) : c \notin OwnedBackgrounds}
        /\ collection_status.has_gold =
            (\E t \in Range(my_tokens) : RowOf(t).Fur = "Solid Gold")
        /\ shown = collection_status)
  /\ [][\A t \in CatalogIds :
          (t \notin Range(my_tokens) /\ t \in Range(my_tokens')) =>
             RowOf(t).Background \notin Range(shown'.missing_bg)]_vars

\* a Blue token and a Solid Gold token are owned: Blue is met, gold is held
NeedsWitness ==
  /\ "Blue" \in OwnedBackgrounds
  /\ collection_status.has_gold
  /\ "Blue" \notin Range(shown.missing_bg)
  /\ msg = "added"

\* the catalog ids that a step has newly put into the sold set
NewlySold == (auctioned_ids' \ auctioned_ids) \cap CatalogIds

\* C12: with the holdings fixed, marking a further catalog item of
\* background c as sold never decreases the scarcity factor of c (it
\* raises it) and leaves the scarcity factor of every other background
\* unchanged.
ScarcityMonotone ==
  [][(my_tokens' = my_tokens /\ auctioned_ids' # auctioned_ids) =>
       \A bg \in DOMAIN initial_bg_counts :
          IF \E t \in NewlySold : RowOf(t).Background = bg
          THEN RatLess(scarcity_factor(bg), scarcity_factor(bg)')
          ELSE scarcity_factor(bg)' = scarcity_factor(bg)]_vars

\* a Blue token was just marked sold while a token is owned: Blue is
\* scarcer than at the start, Yellow is untouched
ScarcityWitness ==
  /\ msg = "marked_sold"
  /\ my_tokens # <<>>
  /\ scarcity_factor("Blue").num = 1
  /\ scarcity_factor("Yellow").num = 0

\* C13: of two catalog items with the same background and the same fur,
\* the one with the strictly higher Total Score has the strictly higher
\* utility, whether or not an item of that background is owned.
HigherScoreHigherUtility ==
  \A i, j \in 1..Len(df) :
     (/\ df[i].Background = df[j].Background
      /\ df[i].Fur = df[j].Fur
      /\ df[i].TotalScore < df[j].TotalScore)
     => RatLess(value_token(df[i]), value_token(df[j]))

\* the better of two like tokens is owned, so neither is an upgrade
LikeTokensWitness ==
  \E i, j \in 1..Len(df) :
     /\ df[i].Background = df[j].Background
     /\ df[i].Fur = df[j].Fur
     /\ df[i].TotalScore < df[j].TotalScore
     /\ df[j].id \in Range(my_tokens)
     /\ current_best(df[j].Background) = df[j].TotalScore

\* The rival valuation of the nomination ranking as the specification
\* describes it: the score scaled by a fixed need bonus when the item
\* fulfils a requirement the rival has not met, else zero.  The session
\* state records no rival holdings, so a registered rival has met none.
RIVAL_NEED_BONUS == 10

FulfilsRequirement(token_row) ==
  \/ token_row.Background \in Range(BACKGROUND_COLORS)
  \/ token_row.Fur = "Solid Gold"

bestRivalUtility(token_row) ==
  IF DOMAIN others_budget # {} /\ FulfilsRequirement(token_row)
  THEN [num |-> token_row.TotalScore * RIVAL_NEED_BONUS, den |-> 100]
  ELSE [num |-> 0, den |-> 100]

\* edge = selfUtility - bestRivalUtility
edge(token_row) ==
  LET self == value_token(token_row)
      rival == bestRivalUtility(token_row)
  IN \* self.den is a multiple of rival.den
     [num |-> self.num - rival.num * (self.den \div rival.den),
      den |-> self.den]

TopNs == (0..Len(df)) \cup {NOMINATION_TOP_N}

\* C14: the nomination ranking returns at most topN items, all from the
\* remaining pool, in descending order of edge = selfUtility -
\* bestRivalUtility, and no item of the pool that is left out has a
\* strictly higher edge than an item returned.
NominationsRankedByEdge ==
  \A n \in TopNs : \A recs \in recommend_nomination(n) :
     /\ Len(recs) <= n
     /\ \A k \in 1..Len(recs) : recs[k].id \in CatalogIds \ auctioned_ids
     /\ \A a, b \in 1..Len(recs) : a < b => ~RatLess(edge(recs[a]), edge(recs[b]))
     /\ \A r \in Range(remaining_df) :
           r.id \notin {recs[k].id : k \in 1..Len(recs)} =>
              \A k \in 1..Len(recs) : ~RatLess(edge(recs[k]), edge(r))

\* C15: for every item the recommended bid is at most the current budget
\* minus the safety cash buffer, so paying it leaves the buffer unspent.
\* (bids are in tenths)
BidLeavesBuffer ==
  \A i \in 1..Len(df) : \A b \in suggested_bid(df[i]) :
     /\ b <= 10 * (my_budget - SAFETY_CASH_BUFFER)
     /\ 10 * my_budget - b >= 10 * SAFETY_CASH_BUFFER

\* the budget is so low that the buffer, not the value, sets the bid of a
\* token worth bidding for
BufferBindsWitness ==
  /\ my_tokens # <<>>
  /\ \E i \in 1..Len(df) :
        /\ \A v \in round1(value_token(df[i])) :
              v > 10 * (my_budget - SAFETY_CASH_BUFFER)
        /\ suggested_bid(df[i]) = {10 * (my_budget - SAFETY_CASH_BUFFER)}

\* what int() makes of each text the user may type
ParsedInputs == [t \in TextInputs |-> int(t)]

\* the messages a run of each handler can end with
AddTokenMsgs == {"invalid_int", "not_found", "already_own", "added"}

MarkSoldMsgs == {"enter_valid_id", "marked_sold"}

\* C16: Add token with text that is no integer, with an id not in the
\* catalog or with an id already owned, and Mark sold with text that is no
\* integer, are answered with a warning and leave owned items, sold set,
\* budget and rival budgets unchanged.
InputErrorsRejected ==
  [][\A t \in TextInputs :
        LET parsed == ParsedInputs[t] IN
        /\ (/\ \/ ~parsed.ok
               \/ parsed.val \notin CatalogIds
               \/ parsed.val \in Range(my_tokens)
            /\ msg' \in AddTokenMsgs
            /\ AddToken(t))
              => (UNCHANGED ledger /\ msg' \in WarningMsgs)
        /\ (~parsed.ok /\ msg' \in MarkSoldMsgs /\ MarkSold(t))
              => (UNCHANGED ledger /\ msg' \in WarningMsgs)]_vars

\* a token that is already owned was offered again and refused
InputErrorWitness ==
  /\ msg = "already_own"
  /\ Len(my_tokens) = 2
  /\ auctioned_ids # {}

\* C17: for every catalog item, in every state, the divisor of the
\* scarcity computation is at least 1 and the utility is a defined value
\* (its denominator is not zero), also when the item's background is sold
\* out and after ids outside the catalog were marked sold.
ScarcityDivisorPositive ==
  \A i \in 1..Len(df) :
     /\ df[i].Background \in DOMAIN initial_bg_counts
     /\ scarcity_factor(df[i].Background).den >= 1
     /\ value_token(df[i]).den >= 1
     /\ RatLeq(scarcity_factor(df[i].Background), [num |-> 1, den |-> 1])

\* a background is sold out and an id outside the catalog is marked sold
SoldOutWitness ==
  /\ \E i \in 1..Len(df) : remaining_bg_count(df[i].Background) = 0
  /\ \E x \in auctioned_ids : x \notin CatalogIds

\* C18: the owned-items list holds no id more than once.
OwnedHasNoDuplicates ==
  \A i, j \in 1..Len(my_tokens) : i # j => my_tokens[i] # my_tokens[j]

\* the list is full: a second token was just added to it
TwoOwnedWitness == msg = "added" /\ Len(my_tokens) >= 2

\* C19: a successful Add token appends the id and changes nothing else;
\* an Undo right after it gives back the list without its last id, that
\* is the list before the Add, and changes nothing else; Undo on an empty
\* list leaves the state unchanged.
UndoInvertsAdd ==
  [][/\ \A t \in TextInputs :
          (msg' = "added" /\ AddToken(t)) =>
             /\ my_tokens' # <<>>
             /\ SubSeq(my_tokens', 1, Len(my_tokens') - 1) = my_tokens
             /\ UNCHANGED <<my_budget, others_budget, auctioned_ids>>
     /\ (msg = "added" /\ UndoLastToken) =>
             /\ my_tokens # <<>>
             /\ my_tokens' = SubSeq(my_tokens, 1, Len(my_tokens) - 1)
             /\ UNCHANGED <<my_budget, others_budget, auctioned_ids>>
     /\ (my_tokens = <<>> /\ UndoLastToken) => UNCHANGED ledger]_vars

\* an Undo took the list back to one token while ids are sold, a rival is
\* registered and the budget was edited
UndoneAddWitness ==
  /\ msg = "removed"
  /\ Len(my_tokens) = 1
  /\ auctioned_ids # {}
  /\ DOMAIN others_budget # {}
  /\ my_budget # STARTING_BUDGET
====
